---- MODULE Spec2Model ----
(***************************************************************************)
(* Model of the grocery-list backend's entry point (src/main.rs): process  *)
(* start-up and the demo flag, the demo-reset background task and the      *)
(* reset procedure it runs on a pooled SQLite connection, request handlers *)
(* that read the primary store meanwhile, the static/SPA fallback handler  *)
(* and the router's dispatch.                                              *)
(***************************************************************************)
EXTENDS Integers, Sequences, FiniteSets, TLC

\* ------------------------------------------------------------------ bounds
\* Row values a table may hold (1..NumRows).
NumRows == 1
\* Connections of the pool shared by the reset task and the handlers.
PoolSize == 2
\* Timer ticks that may be due and not yet taken by the task.
MaxDue == 1
\* Pieces of a request path after its leading slash (static handler).
MaxPathLen == 4
\* Segments of a request path (router).
MaxSegs == 3

Rows == 1..NumRows
Conns == 1..PoolSize

\* ------------------------------------------------------------ the database
\* The user tables of the primary schema, in sqlite_master's order.
Tables == <<"categories", "entries">>
TableSet == {Tables[i] : i \in 1..Len(Tables)}

\* A table's contents: how many copies of each row it holds.
Empty == [r \in Rows |-> 0]
Plus(a, b) == [r \in Rows |-> a[r] + b[r]]
Contents == [Rows -> 0..1]
NoData == [t \in TableSet |-> Empty]

\* Variant: the delete loop leaves the rows in place.
DeleteRowsNoop(data, t) == data

\* DELETE FROM main.<t>
DeleteRows(data, t) == [data EXCEPT ![t] = Empty]

\* INSERT INTO main.<t> SELECT * FROM demo.<t>
CopyRows(data, snap, t) == [data EXCEPT ![t] = Plus(data[t], snap.rows[t])]

\* Variant: the statement runs outside the transaction and is committed at once.
TxWriteAutocommit(st, newData) == [store |-> newData, txData |-> newData]

\* A statement executed on the open transaction: its effect stays in the
\* transaction until COMMIT, the committed store is untouched.
TxWrite(st, newData) == [store |-> st, txData |-> newData]

\* Variant: the writes of a dropped transaction stay in the store.
RollbackKeepsWrites(st, tx) == tx

\* The transaction is dropped without commit: sqlx rolls it back.
Rollback(st, tx) == st

\* ------------------------------------------------------------- environment
EnvValues == {"true", "false", "TRUE", "1", ""}
\* GL_DEMO: <<>> when unset, <<v>> when set to v.
EnvSettings == {<<>>} \cup {<<v>> : v \in EnvValues}

\* str::parse::<bool>: exactly "true" and "false" parse.
ParseBool(s) ==
    IF s = "true" THEN [ok |-> TRUE, val |-> TRUE]
    ELSE IF s = "false" THEN [ok |-> TRUE, val |-> FALSE]
    ELSE [ok |-> FALSE, val |-> FALSE]

\* Variant: an unparsable value counts as true (unwrap_or(true)).
is_demo_default_true(e) ==
    LET s == IF e = <<>> THEN "false" ELSE e[1]
        p == ParseBool(s)
    IN  IF p.ok THEN p.val ELSE TRUE

\* env::var("GL_DEMO").unwrap_or_else(|_| "false").parse::<bool>().unwrap_or(false)
is_demo(e) ==
    LET s == IF e = <<>> THEN "false" ELSE e[1]
        p == ParseBool(s)
    IN  IF p.ok THEN p.val ELSE FALSE

VARIABLES
    env,         \* the GL_DEMO setting of the process
    mainPc,      \* main: "start", "serving", "exited"
    spawned,     \* reset tasks spawned so far
    store,       \* committed contents of the primary tables
    snapshot,    \* the snapshot file: which tables it has, and their rows
    attached,    \* per pooled connection: is schema "demo" attached
    held,        \* the connection the reset holds, 0 when none
    txOpen,      \* the reset's transaction is open
    txData,      \* the tables as the open transaction sees them
    tables,      \* reset_database's local list of table names
    taskPc,      \* the background task's position
    idx,         \* the table index of the delete / copy loop
    due,         \* elapsed timer ticks not yet taken
    obs,         \* what the last handler read since the last tick returned
    pre,         \* the store when the current attempt started
    lastResult,  \* result of the last finished attempt since the last tick
    committed,   \* the current / last attempt committed its transaction
    trace,       \* steps of the current / last attempt
    inFlight,    \* reset_database calls started and not returned
    resetStarted, \* some reset attempt has started
    assets,      \* the embedded asset paths (Assets)
    reqPath,     \* static_handler's request: uri.path(), as pieces
    resp,        \* static_handler's response (<<>>: none yet)
    reqMethod,   \* the router's request: method
    reqSegs,     \* the router's request: path segments
    handled      \* the handler the router dispatched to ("": none yet)

vars == <<env, mainPc, spawned, store, snapshot, attached, held, txOpen, txData,
          tables, taskPc, idx, due, obs, pre, lastResult, committed, trace,
          inFlight, resetStarted, assets, reqPath, resp, reqMethod, reqSegs,
          handled>>

serverVars == <<mainPc, spawned, store, snapshot, attached, held, txOpen, txData,
                tables, taskPc, idx, due, obs, pre, lastResult, committed, trace,
                inFlight, resetStarted>>
staticVars == <<assets, reqPath, resp>>
routerVars == <<reqMethod, reqSegs, handled>>

Snapshots ==
    {[has |-> h, rows |-> [t \in TableSet |-> IF t \in h THEN r[t] ELSE Empty]] :
        h \in SUBSET TableSet, r \in [TableSet -> Contents]}

NoStatic == assets = {} /\ reqPath = <<>> /\ resp = <<>>
NoRouter == reqMethod = "" /\ reqSegs = <<>> /\ handled = ""

Init ==
    /\ env \in EnvSettings
    /\ NoStatic
    /\ NoRouter
    /\ mainPc = "start"
    /\ spawned = 0
    /\ store \in [TableSet -> Contents]
    /\ snapshot \in Snapshots
    /\ attached = [c \in Conns |-> FALSE]
    /\ held = 0
    /\ txOpen = FALSE
    /\ txData = NoData
    /\ tables = <<>>
    /\ taskPc = "none"
    /\ idx = 0
    /\ due = 0
    /\ obs = <<>>
    /\ pre = store
    /\ lastResult = "none"
    /\ committed = FALSE
    /\ trace = <<>>
    /\ inFlight = 0
    /\ resetStarted = FALSE

\* ------------------------------------------------------------------- main
\* main (start-up): read GL_DEMO, open the database, spawn the reset task in
\* demo mode only, then serve. Database::new failing ends the process
\* before anything is spawned. The first tick of a tokio interval is due at once.
Main ==
    /\ mainPc = "start"
    /\ \E dbOk \in BOOLEAN :
        IF ~dbOk
        THEN /\ mainPc' = "exited"
             /\ UNCHANGED <<spawned, taskPc, due>>
        ELSE /\ mainPc' = "serving"
             /\ IF is_demo(env)
                THEN /\ spawned' = spawned + 1
                     /\ taskPc' = "waiting"
                     /\ due' = 1
                ELSE UNCHANGED <<spawned, taskPc, due>>
    /\ UNCHANGED <<env, store, snapshot, attached, held, txOpen, txData, tables,
                   idx, obs, pre, lastResult, committed, trace, inFlight,
                   resetStarted, staticVars, routerVars>>

\* A request handler reads the primary store on a pooled connection other
\* than the one the reset holds: it sees the committed contents.
HandlerRead ==
    /\ mainPc = "serving"
    /\ \E c \in Conns : c # held
    /\ obs' = <<store>>
    /\ UNCHANGED <<env, mainPc, spawned, store, snapshot, attached, held, txOpen,
                   txData, tables, taskPc, idx, due, pre, lastResult, committed,
                   trace, inFlight, resetStarted, staticVars, routerVars>>

\* ------------------------------------------------- spawn_database_reset_task
\* The interval elapses while the task waits or works (missed ticks stay due).
TimerElapse ==
    /\ taskPc \notin {"none", "stopped"}
    /\ due < MaxDue
    /\ due' = due + 1
    /\ UNCHANGED <<env, mainPc, spawned, store, snapshot, attached, held, txOpen,
                   txData, tables, taskPc, idx, obs, pre, lastResult, committed,
                   trace, inFlight, resetStarted, staticVars, routerVars>>

\* Variant: every elapsed tick starts a reset, whether or not one is running.
CanTickWhileRunning == taskPc \notin {"none", "stopped"} /\ due > 0

\* ticker.tick().await returns only where the loop awaits it.
CanTick == taskPc = "waiting" /\ due > 0

\* Variant: an Err ends the loop (the error is propagated with `?`).
AfterResetStopOnErr(result) == IF result = "Err" THEN "stopped" ELSE "waiting"

\* The loop after reset_database returned: an Err is logged, then the loop
\* goes back to ticker.tick().await.
AfterReset(result) == "waiting"

Tick ==
    /\ CanTick
    /\ due' = due - 1
    /\ taskPc' = "acquire"
    /\ inFlight' = inFlight + 1
    /\ pre' = store
    /\ lastResult' = "none"
    /\ committed' = FALSE
    /\ trace' = <<>>
    /\ resetStarted' = TRUE
    /\ obs' = <<>>
    /\ UNCHANGED <<env, mainPc, spawned, store, snapshot, attached, held, txOpen,
                   txData, tables, idx, staticVars, routerVars>>

\* ---------------------------------------------------------- reset_database
Step(op, table, ok) == [op |-> op, table |-> table, ok |-> ok]

\* reset_database returns `result`: its locals are dropped (the transaction,
\* if still open, is rolled back; the connection goes back to the pool as it
\* is) and the task loop continues.
Return(result, op, table) ==
    /\ store' = IF txOpen THEN Rollback(store, txData) ELSE store
    /\ txOpen' = FALSE
    /\ txData' = NoData
    /\ held' = 0
    /\ tables' = <<>>
    /\ idx' = 0
    /\ taskPc' = AfterReset(result)
    /\ lastResult' = result
    /\ inFlight' = inFlight - 1
    /\ trace' = Append(trace, Step(op, table, result = "Ok"))
    /\ UNCHANGED <<env, mainPc, spawned, snapshot, due, obs, pre, committed,
                   resetStarted, staticVars, routerVars>>

\* A step that succeeded and is followed by another.
Advance(op, table, pc, i) ==
    /\ taskPc' = pc
    /\ idx' = i
    /\ trace' = Append(trace, Step(op, table, TRUE))
    /\ UNCHANGED <<env, mainPc, spawned, snapshot, due, obs, pre, lastResult,
                   inFlight, resetStarted, staticVars, routerVars>>

\* pool.acquire().await?
Acquire ==
    /\ taskPc = "acquire"
    /\ \/ /\ \E c \in Conns : held' = c
          /\ Advance("acquire", "", "attach", 0)
          /\ UNCHANGED <<store, attached, txOpen, txData, tables, committed>>
       \/ /\ Return("Err", "acquire", "")
          /\ UNCHANGED <<attached>>

\* ATTACH DATABASE ? AS demo: fails when this connection already has a
\* schema named demo.
Attach ==
    /\ taskPc = "attach"
    /\ \/ /\ ~attached[held]
          /\ attached' = [attached EXCEPT ![held] = TRUE]
          /\ Advance("attach", "", "enumerate", 0)
          /\ UNCHANGED <<store, held, txOpen, txData, tables, committed>>
       \/ /\ Return("Err", "attach", "")
          /\ UNCHANGED <<attached>>

\* SELECT name FROM sqlite_master WHERE type='table' AND name NOT LIKE 'sqlite_%'
Enumerate ==
    /\ taskPc = "enumerate"
    /\ \/ /\ tables' = Tables
          /\ Advance("enumerate", "", "begin", 0)
          /\ UNCHANGED <<store, attached, held, txOpen, txData, committed>>
       \/ /\ Return("Err", "enumerate", "")
          /\ UNCHANGED <<attached>>

AfterBegin == IF Len(tables) = 0 THEN [pc |-> "commit", idx |-> 0]
              ELSE [pc |-> "delete", idx |-> 1]

\* Variant: one loop deletes and copies table by table.
AfterDeleteInterleaved(i) == [pc |-> "copy", idx |-> i]

AfterDelete(i) == IF i < Len(tables) THEN [pc |-> "delete", idx |-> i + 1]
                  ELSE [pc |-> "copy", idx |-> 1]

AfterCopy(i) == IF i < Len(tables) THEN [pc |-> "copy", idx |-> i + 1]
                ELSE [pc |-> "commit", idx |-> 0]

\* pool.begin().await?
Begin ==
    /\ taskPc = "begin"
    /\ \/ /\ txOpen' = TRUE
          /\ txData' = store
          /\ Advance("begin", "", AfterBegin.pc, AfterBegin.idx)
          /\ UNCHANGED <<store, attached, held, tables, committed>>
       \/ /\ Return("Err", "begin", "")
          /\ UNCHANGED <<attached>>

\* for (table_name,) in &tables { DELETE FROM main.<table_name> }
Delete ==
    /\ taskPc = "delete"
    /\ LET t == tables[idx]
           w == TxWrite(store, DeleteRows(txData, t))
       IN  \/ /\ store' = w.store
              /\ txData' = w.txData
              /\ Advance("delete", t, AfterDelete(idx).pc, AfterDelete(idx).idx)
              /\ UNCHANGED <<attached, held, txOpen, tables, committed>>
           \/ /\ Return("Err", "delete", t)
              /\ UNCHANGED <<attached>>

\* for (table_name,) in &tables { INSERT INTO main.<t> SELECT * FROM demo.<t> }
\* fails when the snapshot has no such table.
Copy ==
    /\ taskPc = "copy"
    /\ LET t == tables[idx]
           w == TxWrite(store, CopyRows(txData, snapshot, t))
       IN  \/ /\ t \in snapshot.has
              /\ store' = w.store
              /\ txData' = w.txData
              /\ Advance("copy", t, AfterCopy(idx).pc, AfterCopy(idx).idx)
              /\ UNCHANGED <<attached, held, txOpen, tables, committed>>
           \/ /\ Return("Err", "copy", t)
              /\ UNCHANGED <<attached>>

\* tx.commit().await?: the transaction's view becomes the committed store.
Commit ==
    /\ taskPc = "commit"
    /\ \/ /\ store' = txData
          /\ txOpen' = FALSE
          /\ txData' = NoData
          /\ committed' = TRUE
          /\ Advance("commit", "", "detach", 0)
          /\ UNCHANGED <<attached, held, tables>>
       \/ /\ Return("Err", "commit", "")
          /\ UNCHANGED <<attached>>

\* DETACH DATABASE demo
Detach ==
    /\ taskPc = "detach"
    /\ \/ /\ attached' = [attached EXCEPT ![held] = FALSE]
          /\ Advance("detach", "", "vacuum", 0)
          /\ UNCHANGED <<store, held, txOpen, txData, tables, committed>>
       \/ /\ Return("Err", "detach", "")
          /\ UNCHANGED <<attached>>

\* VACUUM, then Ok(())
Vacuum ==
    /\ taskPc = "vacuum"
    /\ \/ /\ Return("Ok", "vacuum", "")
          /\ UNCHANGED <<attached>>
       \/ /\ Return("Err", "vacuum", "")
          /\ UNCHANGED <<attached>>

reset_database ==
    \/ Acquire
    \/ Attach
    \/ Enumerate
    \/ Begin
    \/ Delete
    \/ Copy
    \/ Commit
    \/ Detach
    \/ Vacuum

Next ==
    \/ Main
    \/ HandlerRead
    \/ TimerElapse
    \/ Tick
    \/ reset_database

Spec == Init /\ [][Next]_vars

\* The interval keeps elapsing and the runtime keeps polling the task.
FairSpec == Spec /\ WF_vars(Tick) /\ WF_vars(TimerElapse)

\* ---------------------------------------------------------- static_handler
\* A path is a sequence of pieces; a piece is a slash, a dot or a run of
\* other characters.
Pieces == {"/", ".", "a", "index", "html"}
INDEX_HTML == <<"index", ".", "html">>

PathsUpTo(n) == UNION {[1..k -> Pieces] : k \in 0..n}
\* uri.path() of a request starts with a slash.
RequestPaths == {<<"/">> \o p : p \in PathsUpTo(MaxPathLen)}
AssetCandidates == {INDEX_HTML, <<"a">>, <<"a", ".", "a">>, <<"a", "/", "a">>}

\* str::trim_start_matches('/')
RECURSIVE trim_start_matches(_)
trim_start_matches(p) ==
    IF p # <<>> /\ Head(p) = "/" THEN trim_start_matches(Tail(p)) ELSE p

\* str::contains('.')
contains_dot(p) == \E i \in 1..Len(p) : p[i] = "."

NoAsset == <<>>
Response(status, kind, path, demo) ==
    [status |-> status, kind |-> kind, path |-> path, demo |-> demo]

not_found == Response(404, "not_found", NoAsset, FALSE)

\* index_html: the index.html asset with __IS_DEMO__ replaced, or 404.
index_html ==
    IF INDEX_HTML \in assets
    THEN Response(200, "index", INDEX_HTML, is_demo(env))
    ELSE not_found

\* Variant: no SPA fallback, every missing path is a 404.
static_handler_no_fallback(uriPath) ==
    LET path == trim_start_matches(uriPath)
    IN  IF path = <<>> \/ path = INDEX_HTML THEN index_html
        ELSE IF path \in assets THEN Response(200, "asset", path, FALSE)
        ELSE not_found

static_handler(uriPath) ==
    LET path == trim_start_matches(uriPath)
    IN  IF path = <<>> \/ path = INDEX_HTML THEN index_html
        ELSE IF path \in assets THEN Response(200, "asset", path, FALSE)
        ELSE IF contains_dot(path) THEN not_found
        ELSE index_html

InitStatic ==
    /\ env \in EnvSettings
    /\ assets \in SUBSET AssetCandidates
    /\ reqPath \in RequestPaths
    /\ resp = <<>>
    /\ NoRouter
    /\ mainPc = "serving"
    /\ spawned = 0
    /\ store = NoData
    /\ snapshot = [has |-> {}, rows |-> NoData]
    /\ attached = [c \in Conns |-> FALSE]
    /\ held = 0
    /\ txOpen = FALSE
    /\ txData = NoData
    /\ tables = <<>>
    /\ taskPc = "none"
    /\ idx = 0
    /\ due = 0
    /\ obs = <<>>
    /\ pre = NoData
    /\ lastResult = "none"
    /\ committed = FALSE
    /\ trace = <<>>
    /\ inFlight = 0
    /\ resetStarted = FALSE

StaticRequest ==
    /\ resp = <<>>
    /\ resp' = <<static_handler(reqPath)>>
    /\ UNCHANGED <<env, serverVars, assets, reqPath, routerVars>>

NextStatic == StaticRequest

SpecStatic == InitStatic /\ [][NextStatic]_vars

\* ------------------------------------------------------------------ Router
\* The routes of main's Router, in registration order; ":id" is a parameter.
Route(path, method, handler) == [path |-> path, method |-> method, handler |-> handler]

Routes == <<
    Route(<<"api", "entries">>, "GET", "get_entries"),
    Route(<<"api", "entries">>, "POST", "create_entry"),
    Route(<<"api", "entries", ":id">>, "PUT", "update_entry"),
    Route(<<"api", "entries", ":id">>, "DELETE", "delete_entry"),
    Route(<<"api", "entries", "reorder">>, "PUT", "reorder_entries"),
    Route(<<"api", "entries", "suggestions">>, "GET", "grocery::get_suggestions"),
    Route(<<"api", "categories">>, "GET", "get_categories"),
    Route(<<"api", "categories">>, "POST", "create_category"),
    Route(<<"api", "categories", ":id">>, "PUT", "update_category"),
    Route(<<"api", "categories", ":id">>, "DELETE", "delete_category"),
    Route(<<"api", "categories", "reorder">>, "PUT", "reorder_categories"),
    Route(<<"api", "categories", "suggestions">>, "GET", "category::get_suggestions"),
    Route(<<"health">>, "GET", "health_check") >>

Methods == {"GET", "HEAD", "POST", "PUT", "DELETE", "PATCH"}
Segments == {"api", "entries", "categories", "reorder", "suggestions", "health",
             "7", ""}
\* "/a/b" is <<"a", "b">>, "/" is <<"">>, "/a/" is <<"a", "">>.
SegPaths == UNION {[1..k -> Segments] : k \in 1..MaxSegs}

\* A route's path matches: literal segments are equal, a parameter takes one
\* non-empty segment.
Matches(pat, segs) ==
    /\ Len(pat) = Len(segs)
    /\ \A i \in 1..Len(pat) :
          IF pat[i] = ":id" THEN segs[i] # "" ELSE pat[i] = segs[i]

\* Of two matching paths, the one with a literal where the other has a parameter.
MoreSpecific(q, p) ==
    \E i \in 1..Len(p) :
        /\ q[i] # ":id"
        /\ p[i] = ":id"
        /\ \A j \in 1..(i - 1) : q[j] = p[j]

\* Variant: the first registered route whose path matches wins.
FirstRegistered(segs) ==
    LET I == {j \in 1..Len(Routes) : Matches(Routes[j].path, segs)}
    IN  IF I = {} THEN <<>>
        ELSE Routes[CHOOSE i \in I : \A j \in I : i <= j].path

\* The route path the router picks for a request path (<<>>: none matches).
BestRoute(segs) ==
    LET M == {Routes[i].path : i \in {j \in 1..Len(Routes) : Matches(Routes[j].path, segs)}}
    IN  IF M = {} THEN <<>>
        ELSE CHOOSE p \in M : \A q \in M : ~MoreSpecific(q, p)

\* get(h) serves GET and HEAD.
Serves(routeMethod, method) ==
    routeMethod = method \/ (routeMethod = "GET" /\ method = "HEAD")

\* The handler a request reaches: the fallback when no route path matches,
\* 405 when the path's method router has no handler for the method.
Dispatch(method, segs) ==
    LET p == BestRoute(segs)
        H == {i \in 1..Len(Routes) : Routes[i].path = p /\ Serves(Routes[i].method, method)}
    IN  IF p = <<>> THEN "static_handler"
        ELSE IF H = {} THEN "405"
        ELSE Routes[CHOOSE i \in H : TRUE].handler

InitRouter ==
    /\ env = <<>>
    /\ NoStatic
    /\ reqMethod \in Methods
    /\ reqSegs \in SegPaths
    /\ handled = ""
    /\ mainPc = "serving"
    /\ spawned = 0
    /\ store = NoData
    /\ snapshot = [has |-> {}, rows |-> NoData]
    /\ attached = [c \in Conns |-> FALSE]
    /\ held = 0
    /\ txOpen = FALSE
    /\ txData = NoData
    /\ tables = <<>>
    /\ taskPc = "none"
    /\ idx = 0
    /\ due = 0
    /\ obs = <<>>
    /\ pre = NoData
    /\ lastResult = "none"
    /\ committed = FALSE
    /\ trace = <<>>
    /\ inFlight = 0
    /\ resetStarted = FALSE

RouteRequest ==
    /\ handled = ""
    /\ handled' = Dispatch(reqMethod, reqSegs)
    /\ UNCHANGED <<env, serverVars, staticVars, reqMethod, reqSegs>>

NextRouter == RouteRequest

SpecRouter == InitRouter /\ [][NextRouter]_vars

\* ================================================================ properties
ResetPcs == {"acquire", "attach", "enumerate", "begin", "delete", "copy",
             "commit", "detach", "vacuum"}

\* The primary tables after a complete reset: the snapshot's rows.
PostReset == snapshot.rows

\* C1: a handler reading the primary store while a reset runs (or after it)
\* sees all tables as they were before the reset or all tables as the
\* snapshot has them, never some tables wiped or repopulated and others not.
C1_NoHalfResetObserved ==
    obs # <<>> =>
        \/ obs[1] = pre
        \/ snapshot.has = TableSet /\ obs[1] = PostReset

\* C1 witness: the transaction is half way (first table wiped and copied,
\* differing from both the old and the new contents) and a handler has read
\* the old contents.
C1_Witness ==
    /\ taskPc = "copy"
    /\ idx = 2
    /\ obs # <<>>
    /\ obs[1] = pre
    /\ txData # pre
    /\ txData # PostReset

\* C2: when reset_database has returned Ok, the snapshot had every user
\* table and every primary user table holds exactly the rows of the
\* snapshot's table, each as often as the snapshot has it.
C2_ResetEqualsSnapshot ==
    lastResult = "Ok" => snapshot.has = TableSet /\ store = PostReset

\* C2 witness: a successful reset of a store that held rows and differed
\* from the snapshot.
C2_Witness ==
    /\ lastResult = "Ok"
    /\ pre # PostReset
    /\ \E t \in TableSet : pre[t] # Empty /\ snapshot.rows[t] # Empty

\* C3 as claimed: whenever reset_database returned an error, the primary
\* tables hold their pre-reset contents.
C3_ErrKeepsPreReset ==
    lastResult = "Err" => store = pre

\* C3 as amended: an error from a step up to and including commit leaves the
\* pre-reset contents; an error from detach or VACUUM comes after the commit
\* and leaves the complete snapshot contents. No error leaves a mix.
C3_ErrIsAllOrNothing ==
    lastResult = "Err" =>
        IF committed THEN store = PostReset ELSE store = pre

\* C3 witness: a copy or the commit failed after rows had been deleted
\* inside the transaction, with rows in the store to lose.
C3_Witness ==
    /\ lastResult = "Err"
    /\ ~committed
    /\ trace[Len(trace)].op \in {"copy", "commit"}
    /\ pre # NoData
    /\ pre # PostReset

\* C4: after every attempt, Ok or Err, the task is back at waiting with the
\* server still serving and its handlers able to read; and a tick follows
\* that starts a new attempt.
C4_SchedulerSurvivesFailure ==
    /\ [](lastResult \in {"Ok", "Err"} =>
            /\ taskPc = "waiting"
            /\ mainPc = "serving"
            /\ ENABLED HandlerRead)
    /\ [](lastResult \in {"Ok", "Err"} => <>(taskPc = "acquire"))

\* C4 witness: an attempt has failed, the task waits and a tick is due.
C4_Witness ==
    /\ lastResult = "Err"
    /\ taskPc = "waiting"
    /\ due > 0
    /\ mainPc = "serving"

\* C5: unless GL_DEMO is exactly "true" no reset task exists and no reset
\* step has ever run on the store; when it is "true" and the server serves,
\* exactly one task has been spawned. Never more than one.
C5_ResetOnlyInDemoMode ==
    /\ spawned <= 1
    /\ env # <<"true">> =>
          /\ spawned = 0
          /\ taskPc = "none"
          /\ ~resetStarted
          /\ trace = <<>>
          /\ inFlight = 0
          /\ store = pre
    /\ (env = <<"true">> /\ mainPc = "serving") => spawned = 1

\* C5 witness: the server serves requests with GL_DEMO set to a value that
\* does not parse as a boolean.
C5_Witness ==
    /\ env = <<"TRUE">>
    /\ mainPc = "serving"
    /\ obs # <<>>

\* C6: static_handler's response, by the path after its leading slashes:
\* the index page for the empty path and for index.html; otherwise the
\* asset at that path when there is one; otherwise 404 when the path has a
\* dot and the index page when it has none. The index page is a 404 when
\* the index.html asset is absent.
RelPath(p) ==
    LET k == CHOOSE k \in 1..(Len(p) + 1) :
                 /\ \A j \in 1..(k - 1) : p[j] = "/"
                 /\ k = Len(p) + 1 \/ p[k] # "/"
    IN  SubSeq(p, k, Len(p))

IsIndexPage(r) ==
    IF INDEX_HTML \in assets
    THEN r.status = 200 /\ r.kind = "index"
    ELSE r.status = 404

C6_StaticHandlerCases ==
    resp # <<>> =>
        LET path == RelPath(reqPath)
            r == resp[1]
            hasDot == "." \in {path[i] : i \in 1..Len(path)}
        IN  IF path = <<>> \/ path = INDEX_HTML THEN IsIndexPage(r)
            ELSE IF path \in assets
                 THEN r.status = 200 /\ r.kind = "asset" /\ r.path = path
            ELSE IF hasDot THEN r.status = 404
            ELSE IsIndexPage(r)

\* C6 witness: a path without a dot that is no asset got the index page.
C6_Witness ==
    /\ resp # <<>>
    /\ RelPath(reqPath) = <<"a", "/", "a">>
    /\ <<"a", "/", "a">> \notin assets
    /\ resp[1].kind = "index"

\* The HTTP surface table: (method, path) -> handler.
Surface == {
    Route(<<"api", "entries">>, "GET", "get_entries"),
    Route(<<"api", "entries">>, "POST", "create_entry"),
    Route(<<"api", "entries", ":id">>, "PUT", "update_entry"),
    Route(<<"api", "entries", ":id">>, "DELETE", "delete_entry"),
    Route(<<"api", "entries", "reorder">>, "PUT", "reorder_entries"),
    Route(<<"api", "entries", "suggestions">>, "GET", "grocery::get_suggestions"),
    Route(<<"api", "categories">>, "GET", "get_categories"),
    Route(<<"api", "categories">>, "POST", "create_category"),
    Route(<<"api", "categories", ":id">>, "PUT", "update_category"),
    Route(<<"api", "categories", ":id">>, "DELETE", "delete_category"),
    Route(<<"api", "categories", "reorder">>, "PUT", "reorder_categories"),
    Route(<<"api", "categories", "suggestions">>, "GET", "category::get_suggestions"),
    Route(<<"health">>, "GET", "health_check") }

IsId(seg) == seg \notin {"", "reorder", "suggestions"}

RowPath(row, segs) ==
    /\ Len(row.path) = Len(segs)
    /\ \A i \in 1..Len(segs) :
          IF row.path[i] = ":id" THEN IsId(segs[i]) ELSE row.path[i] = segs[i]

AnyRowPath(segs) ==
    \E row \in Surface :
        /\ Len(row.path) = Len(segs)
        /\ \A i \in 1..Len(segs) :
              row.path[i] = segs[i] \/ (row.path[i] = ":id" /\ segs[i] # "")

\* Every row of the table reaches its own handler, never the static
\* fallback (an :id being a segment that is not itself the literal reorder
\* or suggestions), and PUT .../reorder reaches the reorder handler, not the
\* update handler.
RowsReachOwnHandler ==
    /\ \A row \in Surface :
          (row.method = reqMethod /\ RowPath(row, reqSegs)) =>
              handled = row.handler /\ handled # "static_handler"
    /\ (reqMethod = "PUT" /\ reqSegs = <<"api", "entries", "reorder">>) =>
          handled = "reorder_entries"
    /\ (reqMethod = "PUT" /\ reqSegs = <<"api", "categories", "reorder">>) =>
          handled = "reorder_categories"

\* Some row has the request's method and a path the request's path matches.
AnyRow(method, segs) ==
    \E row \in Surface :
        /\ row.method = method
        /\ Len(row.path) = Len(segs)
        /\ \A i \in 1..Len(segs) :
              row.path[i] = segs[i] \/ (row.path[i] = ":id" /\ segs[i] # "")

\* The rows of the path a request's path matches: those of the literal
\* path when there is one, else those of the :id path.
PathRows(segs) ==
    LET lit == {row \in Surface : row.path = segs}
    IN  IF lit # {} THEN lit
        ELSE {row \in Surface :
                /\ Len(row.path) = Len(segs)
                /\ \A i \in 1..Len(segs) :
                      row.path[i] = segs[i] \/ (row.path[i] = ":id" /\ segs[i] # "")}

\* C7 as claimed: every row of the HTTP surface table reaches its own
\* handler and never the static fallback, PUT .../reorder reaches the
\* reorder handlers, and a request that matches no (method, path) row
\* reaches the static fallback.
C7_UnregisteredReachesFallback ==
    handled # "" =>
        /\ RowsReachOwnHandler
        /\ ~AnyRow(reqMethod, reqSegs) => handled = "static_handler"

\* C7 as amended: every row of the HTTP surface table reaches its own
\* handler and never the static fallback, PUT .../reorder reaches the
\* reorder handlers; a request reaches the static fallback exactly when its
\* path matches no registered path; a request whose path matches a
\* registered path that has no handler for its method (a GET handler also
\* serving HEAD) is answered 405 by the router.
C7_RoutesReachOwnHandler ==
    handled # "" =>
        /\ RowsReachOwnHandler
        /\ ~AnyRowPath(reqSegs) <=> handled = "static_handler"
        /\ (/\ AnyRowPath(reqSegs)
            /\ \A row \in PathRows(reqSegs) :
                  ~(row.method = reqMethod \/ (row.method = "GET" /\ reqMethod = "HEAD")))
           => handled = "405"

\* C7 witness: PUT /api/entries/reorder was dispatched to reorder_entries.
C7_Witness ==
    /\ reqMethod = "PUT"
    /\ reqSegs = <<"api", "entries", "reorder">>
    /\ handled = "reorder_entries"

\* C8: the steps of an attempt are a prefix of: acquire, attach, enumerate,
\* begin, every delete, every copy, commit, detach, vacuum; only the last
\* step of an attempt can have failed and the attempt ends there; delete,
\* copy and commit run inside the transaction, detach after the commit, and
\* vacuum after the detach with no transaction open.
StepOp(op, table) == [op |-> op, table |-> table]

Canonical ==
    <<StepOp("acquire", ""), StepOp("attach", ""), StepOp("enumerate", ""),
      StepOp("begin", "")>>
    \o [i \in 1..Len(Tables) |-> StepOp("delete", Tables[i])]
    \o [i \in 1..Len(Tables) |-> StepOp("copy", Tables[i])]
    \o <<StepOp("commit", ""), StepOp("detach", ""), StepOp("vacuum", "")>>

TraceOps == [i \in 1..Len(trace) |-> StepOp(trace[i].op, trace[i].table)]

IsPrefix(a, b) == Len(a) <= Len(b) /\ a = SubSeq(b, 1, Len(a))

C8_StepOrder ==
    /\ IsPrefix(TraceOps, Canonical)
    /\ \A i \in 1..(Len(trace) - 1) : trace[i].ok
    /\ (trace # <<>> /\ ~trace[Len(trace)].ok) =>
          taskPc = "waiting" /\ lastResult = "Err"
    /\ taskPc \in {"delete", "copy", "commit"} =>
          txOpen /\ ~committed /\ attached[held] /\ tables = Tables
    /\ taskPc = "detach" => ~txOpen /\ committed /\ attached[held]
    /\ taskPc = "vacuum" => ~txOpen /\ committed /\ ~attached[held]
    /\ taskPc \in {"acquire", "attach", "enumerate", "begin"} =>
          ~txOpen /\ ~committed

\* C8 witness: an attempt ran all its steps and returned Ok.
C8_Witness ==
    /\ lastResult = "Ok"
    /\ TraceOps = Canonical

\* C9 as claimed: when no reset is in progress no pooled connection has the
\* snapshot attached as demo, and none has an open transaction.
C9_ConnectionsLeftClean ==
    taskPc \in {"none", "waiting"} =>
        /\ \A c \in Conns : ~attached[c]
        /\ ~txOpen

\* C10: at most one reset_database call is in progress; one is in progress
\* exactly while the task is at one of its steps, also when a further tick
\* has become due meanwhile.
C10_OneResetAtATime ==
    /\ inFlight \in {0, 1}
    /\ inFlight = 1 <=> taskPc \in ResetPcs
    /\ taskPc \in {"none", "waiting"} => held = 0

\* C10 witness: a tick became due while an attempt is inside its transaction.
C10_Witness ==
    /\ inFlight = 1
    /\ taskPc = "copy"
    /\ due > 0

====
